---- MODULE Spec2Model ----
(***************************************************************************)
(* Model of the retrieval subsystem of crew_ai: the RAGManager of          *)
(* src/crew_ai/rag.py with its in-memory store, and the filesystem backend *)
(* of src/crew_ai/backends/faiss_backend.py (index file, temporary index   *)
(* file and the three side-car files).                                     *)
(*                                                                         *)
(* A document is a number d of Docs: its id, its text and its metadata are *)
(* all named by d, and Embed(d) is the embedding the caller's embedder     *)
(* gives its text.  A row of a vector index is recorded as the document    *)
(* whose embedding was appended there, so that "position i of the index    *)
(* refers to the document at position i of the ids" can be stated.         *)
(***************************************************************************)
EXTENDS Integers, Sequences, FiniteSets, TLC

VARIABLES
    backend,   \* self._backend: "faiss" or "memory"
    col,       \* self._col: "None" or "handle"
    mem,       \* self._ids, self._texts, self._metas, self._vecs
    disk,      \* the files of the collection under storage_dir
    last,      \* the most recent call on the manager, its inputs and outcome
    pc,        \* position of each thread inside a RAGManager method
    lock,      \* self._lock: 0 when free, else the thread holding it
    faults,    \* how many file operations have failed or been cut so far
    ledger,    \* the transactions table, the wall clock and the last ledger call
    guard,     \* one run of guardrail_check: its loop position and its result
    extract,   \* one call of _extract_json_from_text: its text and what it returned
    http       \* the last request MCPHandler.do_POST handled and what it sent

vars == <<backend, col, mem, disk, last, pc, lock, faults, ledger, guard, extract, http>>

\* what the retrieval manager never touches
others == <<ledger, guard, extract, http>>

\* what the ledger and the classifier never touch
rag == <<backend, col, mem, disk, last, pc, lock, faults>>

----------------------------------------------------------------------------
(* Bounds of the model *)

NDocs == 3
MaxBatch == 2
MaxStored == 2
MaxK == 2
NThreads == 2
MaxFaults == 1

Docs == 1 .. NDocs
Threads == 1 .. NThreads
Ks == -1 .. MaxK

\* Python's None where a document (id, text or metadata) is expected
None == 0

Min(a, b) == IF a < b THEN a ELSE b
Max(a, b) == IF a > b THEN a ELSE b

----------------------------------------------------------------------------
(* The embedder: text -> vector.  Documents 1 and 2 (mod 4) embed in two   *)
(* dimensions, document 3 in one dimension, document 0 (mod 4) is the zero *)
(* vector of two dimensions.                                               *)

Embed(d) ==
    CASE d % 4 = 1 -> <<1, 0>>
      [] d % 4 = 2 -> <<1, 1>>
      [] d % 4 = 3 -> <<2>>
      [] OTHER     -> <<0, 0>>

Dim(d) == Len(Embed(d))

\* The batches a caller can pass to add_documents: any sequence of documents
Batches == UNION {[1 .. n -> Docs] : n \in 0 .. MaxBatch}

\* np.array(self.embedder(texts), dtype=float) is a matrix only when every
\* row has the same length; a ragged list raises ValueError
Rectangular(b) == \A i \in 1 .. Len(b) : Dim(b[i]) = Dim(b[1])

RECURSIVE DotFrom(_, _, _)
DotFrom(a, b, i) == IF i > Len(a) THEN 0 ELSE a[i] * b[i] + DotFrom(a, b, i + 1)
Dot(a, b) == DotFrom(a, b, 1)

Sgn(x) == IF x > 0 THEN 1 ELSE IF x < 0 THEN -1 ELSE 0

(* A score is kept exact as the signed square of the cosine, n / d with    *)
(* d > 0: the order of scores is the order of cosines.  nan marks the      *)
(* floating-point NaN that 0.0 / 0.0 gives.                                *)
Score(n, d) == [n |-> n, d |-> d, nan |-> FALSE]
NaN == [n |-> 0, d |-> 1, nan |-> TRUE]
Greater(s, t) == s.n * t.d > t.n * s.d
Same(s, t) == s.n * t.d = t.n * s.d

\* faiss_backend: norms[norms == 0] = 1.0 and qnorm = 1.0 when it is 0
Clamp(n2) == IF n2 = 0 THEN 1 ELSE n2

\* inner product of the normalised row of document d with the normalised query
FaissScore(d, q) ==
    LET s == Dot(Embed(d), q)
    IN Score(Sgn(s) * s * s, Clamp(Dot(Embed(d), Embed(d))) * Clamp(Dot(q, q)))

\* rag.py: (vecs @ qvec) / (norm(vec) * (norm(qvec) + 1e-12))
MemScore(d, q) ==
    LET s == Dot(Embed(d), q)
        a2 == Dot(Embed(d), Embed(d))
    IN IF a2 = 0 THEN NaN
       ELSE IF Dot(q, q) = 0 THEN Score(0, 1)
       ELSE Score(Sgn(s) * s * s, a2 * Dot(q, q))

(* Positions 1 .. Len(sc) by descending score, NaN last, equal scores in   *)
(* position order.                                                         *)
Before(sc, i, j) ==
    IF sc[i].nan \/ sc[j].nan
    THEN (~sc[i].nan /\ sc[j].nan) \/ (sc[i].nan = sc[j].nan /\ i < j)
    ELSE Greater(sc[i], sc[j]) \/ (Same(sc[i], sc[j]) /\ i < j)

Ranked(sc) ==
    [r \in 1 .. Len(sc) |->
        CHOOSE i \in 1 .. Len(sc) :
            Cardinality({j \in 1 .. Len(sc) : Before(sc, j, i)}) = r - 1]

\* Python's seq[:k]
Slice(s, k) ==
    IF k >= 0 THEN SubSeq(s, 1, Min(k, Len(s)))
    ELSE SubSeq(s, 1, Max(Len(s) + k, 0))

\* seq[pos] if pos < len(seq) else None  (positions here start at 1)
At(s, pos) == IF pos <= Len(s) THEN s[pos] ELSE None

Ok(results) == [status |-> "ok", results |-> results]
Raise == [status |-> "raise", results |-> <<>>]

----------------------------------------------------------------------------
(* The in-memory store of rag.py *)

NoVecs == [present |-> FALSE, d |-> 0, rows |-> <<>>]
EmptyMem == [ids |-> <<>>, texts |-> <<>>, metas |-> <<>>, vecs |-> NoVecs]

\* np.vstack([self._vecs, vectors]) raises ValueError when the widths differ
VStackFails(m, b) == m.vecs.present /\ m.vecs.d # Dim(b[1])

\* the memory branch of add_documents on a non-empty rectangular batch: the
\* three lists are extended before the vectors are stacked
MemAdd(m, b) ==
    LET ext == [m EXCEPT !.ids = @ \o b, !.texts = @ \o b, !.metas = @ \o b]
    IN IF ~m.vecs.present
       THEN [store |-> [ext EXCEPT !.vecs = [present |-> TRUE, d |-> Dim(b[1]), rows |-> b]],
             ret |-> Ok(<<>>)]
       ELSE IF VStackFails(m, b)
       THEN [store |-> ext, ret |-> Raise]
       ELSE [store |-> [ext EXCEPT !.vecs.rows = @ \o b], ret |-> Ok(<<>>)]

MemHit(m, sc, pos) ==
    [id |-> m.ids[pos], text |-> m.texts[pos], metadata |-> m.metas[pos], score |-> sc[pos]]

\* search with no test for an empty store
MemIsEmptyNever(m) == FALSE

\* if self._vecs is None or len(self._ids) == 0: return []
MemIsEmpty(m) == ~m.vecs.present \/ Len(m.ids) = 0

\* the memory branch of search for the query vector q
MemSearch(m, q, k) ==
    IF MemIsEmpty(m) THEN Ok(<<>>)
    ELSE IF Len(q) # m.vecs.d THEN Raise
    ELSE LET sc == [i \in 1 .. Len(m.vecs.rows) |-> MemScore(m.vecs.rows[i], q)]
             idx == Slice(Ranked(sc), k)
         IN Ok([r \in 1 .. Len(idx) |-> MemHit(m, sc, idx[r])])

\* the memory branch of clear
MemClear(m) == EmptyMem

----------------------------------------------------------------------------
(* The files of one collection.  An index file (and the temporary file it  *)
(* is written to first) is absent, unparseable ("corrupt") or holds an     *)
(* index of dimension d; a side-car file is absent, unparseable or holds a *)
(* list.                                                                   *)

AbsentIndex == [st |-> "absent", d |-> 0, rows |-> <<>>]
CorruptIndex == [st |-> "corrupt", d |-> 0, rows |-> <<>>]
IndexFile(d, rows) == [st |-> "ok", d |-> d, rows |-> rows]
AbsentList == [st |-> "absent", items |-> <<>>]
CorruptList == [st |-> "corrupt", items |-> <<>>]
ListFile(items) == [st |-> "ok", items |-> items]

\* _paths_for, plus the temporary path add writes the index to
EmptyDisk ==
    [index |-> AbsentIndex, tmp |-> AbsentIndex,
     ids |-> AbsentList, texts |-> AbsentList, metas |-> AbsentList]

\* _load_index: None when the file is absent or cannot be read
LoadIndex(dk) == IF dk.index.st = "ok" THEN dk.index ELSE AbsentIndex

\* a load that takes what it finds in a file it could not parse
LoadListAsIs(f) == f.items

\* _load_ids_texts_metas: each list defaults to [] when absent or unreadable
LoadList(f) == IF f.st = "ok" THEN f.items ELSE <<>>

(* What happens to the five file operations of add, in order:              *)
(*   1 write_index(idx, tmp)   2 os.replace(tmp, index)   3 np.save(ids)   *)
(*   4 json.dump(texts)        5 json.dump(metas)                          *)
(* kind "ok": all succeed.  kind "fail": operation `step` raises.  kind    *)
(* "crash": the process dies during operation `step`.  partial says        *)
(* whether the file being written was already opened and truncated.        *)
AllOk == [kind |-> "ok", step |-> 0, partial |-> FALSE]
Outcomes ==
    {AllOk} \cup
    {o \in [kind : {"fail", "crash"}, step : 1 .. 5, partial : BOOLEAN] :
        o.step = 2 => ~o.partial}

\* operation s ran to its end: a failure of 1 skips 2 (both are in one try)
\* and goes on with 3; a failure of 3 leaves add; a failure of 4 skips 5
Ran(out, s) ==
    \/ out.kind = "ok"
    \/ out.kind = "crash" /\ out.step > s
    \/ out.kind = "fail" /\ out.step > s
    \/ out.kind = "fail" /\ out.step \in {1, 2} /\ s >= 3

\* operation s is the one that raised or was cut, after it touched its file
Hit(out, s) == out.kind # "ok" /\ out.step = s /\ out.partial

\* the index written straight to its own path, with no temporary file
WriteIndexInPlace(dk, idx, out) ==
    [index |-> IF Ran(out, 1) THEN idx ELSE IF Hit(out, 1) THEN CorruptIndex ELSE dk.index,
     tmp |-> dk.tmp]

\* the same with os.replace in a finally clause: a temporary file that was
\* cut short by the error is still moved over the index
WriteIndexReplaceAlways(dk, idx, out) ==
    IF out.kind = "fail" /\ Hit(out, 1)
    THEN [index |-> CorruptIndex, tmp |-> AbsentIndex]
    ELSE [index |-> IF Ran(out, 1) /\ Ran(out, 2) THEN idx ELSE dk.index,
          tmp |-> IF Ran(out, 1) /\ Ran(out, 2) THEN AbsentIndex
                  ELSE IF Ran(out, 1) THEN idx
                  ELSE IF Hit(out, 1) THEN CorruptIndex ELSE dk.tmp]

\* faiss.write_index(idx, tmp_index); os.replace(tmp_index, paths["index"])
WriteIndex(dk, idx, out) ==
    [index |-> IF Ran(out, 1) /\ Ran(out, 2) THEN idx ELSE dk.index,
     tmp |-> IF Ran(out, 1) /\ Ran(out, 2) THEN AbsentIndex
             ELSE IF Ran(out, 1) THEN idx
             ELSE IF Hit(out, 1) THEN CorruptIndex ELSE dk.tmp]

\* a whole-file overwrite of a side-car file by operation s
WriteList(f, items, out, s) ==
    IF Ran(out, s) THEN ListFile(items)
    ELSE IF Hit(out, s) THEN CorruptList ELSE f

\* an add that starts the side-car lists anew when it starts the index anew
FsAddRebuilds(dk, b, out) ==
    LET old == LoadIndex(dk)
        dim == Dim(b[1])
        keep == old.st = "ok" /\ old.d = dim
        base == IF keep THEN old ELSE IndexFile(dim, <<>>)
        idx == IndexFile(dim, base.rows \o b)
        w == WriteIndex(dk, idx, out)
    IN [store |-> [index |-> w.index, tmp |-> w.tmp,
                   ids |-> WriteList(dk.ids, (IF keep THEN LoadList(dk.ids) ELSE <<>>) \o b, out, 3),
                   texts |-> WriteList(dk.texts, (IF keep THEN LoadList(dk.texts) ELSE <<>>) \o b, out, 4),
                   metas |-> WriteList(dk.metas, (IF keep THEN LoadList(dk.metas) ELSE <<>>) \o b, out, 5)],
        ret |-> IF out.kind = "fail" /\ out.step = 3 THEN Raise ELSE Ok(<<>>)]

\* faiss_backend.add on a non-empty rectangular batch
FsAdd(dk, b, out) ==
    LET old == LoadIndex(dk)
        dim == Dim(b[1])
        base == IF old.st = "ok" /\ old.d = dim THEN old ELSE IndexFile(dim, <<>>)
        idx == IndexFile(dim, base.rows \o b)
        w == WriteIndex(dk, idx, out)
    IN [store |-> [index |-> w.index, tmp |-> w.tmp,
                   ids |-> WriteList(dk.ids, LoadList(dk.ids) \o b, out, 3),
                   texts |-> WriteList(dk.texts, LoadList(dk.texts) \o b, out, 4),
                   metas |-> WriteList(dk.metas, LoadList(dk.metas) \o b, out, 5)],
        ret |-> IF out.kind = "fail" /\ out.step = 3 THEN Raise ELSE Ok(<<>>)]

\* idx.search(q, k): the k best positions, -1 where there are fewer than k;
\* the wrapper asserts the query's width and k > 0
FaissSearchFails(idx, q, k) == Len(q) # idx.d \/ k <= 0

FsHit(dk, sc, pos) ==
    [id |-> At(LoadList(dk.ids), pos), text |-> At(LoadList(dk.texts), pos),
     metadata |-> At(LoadList(dk.metas), pos), score |-> sc[pos]]

FaissScores(idx, q) == [i \in 1 .. Len(idx.rows) |-> FaissScore(idx.rows[i], q)]

\* the positions I[0] that are not -1, best first
FaissPositions(idx, q, k) == SubSeq(Ranked(FaissScores(idx, q)), 1, Min(k, Len(idx.rows)))

\* a query that indexes the side-car lists without looking at their length
FsQueryUnguarded(dk, q, k) ==
    LET idx == LoadIndex(dk)
    IN IF idx.st # "ok" \/ Len(idx.rows) = 0 THEN Ok(<<>>)
       ELSE IF FaissSearchFails(idx, q, k) THEN Raise
       ELSE LET I == FaissPositions(idx, q, k)
                short(f) == \E r \in 1 .. Len(I) : I[r] > Len(LoadList(f))
            IN IF short(dk.ids) \/ short(dk.texts) \/ short(dk.metas) THEN Raise
               ELSE Ok([r \in 1 .. Len(I) |-> FsHit(dk, FaissScores(idx, q), I[r])])

\* faiss_backend.query
FsQuery(dk, q, k) ==
    LET idx == LoadIndex(dk)
    IN IF idx.st # "ok" \/ Len(idx.rows) = 0 THEN Ok(<<>>)
       ELSE IF FaissSearchFails(idx, q, k) THEN Raise
       ELSE LET I == FaissPositions(idx, q, k)
            IN Ok([r \in 1 .. Len(I) |-> FsHit(dk, FaissScores(idx, q), I[r])])

\* a delete that removes the index file and leaves the side-car files
DeleteKeepSidecars(dk, stuck) ==
    [dk EXCEPT !.index = IF "index" \in stuck THEN @ ELSE AbsentIndex]

\* faiss_backend.delete_collection: removes the four files of _paths_for,
\* ignoring the removals that fail (stuck names the files that stay)
DeleteCollection(dk, stuck) ==
    [index |-> IF "index" \in stuck THEN dk.index ELSE AbsentIndex,
     tmp |-> dk.tmp,
     ids |-> IF "ids" \in stuck THEN dk.ids ELSE AbsentList,
     texts |-> IF "texts" \in stuck THEN dk.texts ELSE AbsentList,
     metas |-> IF "metas" \in stuck THEN dk.metas ELSE AbsentList]

FileNames == {"index", "ids", "texts", "metas"}

----------------------------------------------------------------------------
(* The transaction ledger of transactions.py: one SQLite table.  A row is  *)
(* its id, its account_id, its amount and its timestamp; type and          *)
(* description are stored and never read by a query.  The wall clock       *)
(* counts ticks, TicksPerSecond of them to the second.                     *)

MaxRows == 3
MaxTime == 2
TicksPerSecond == 2

\* "" is an account_id like another for INSERT and for get_balance
Accounts == {"", "a"}
Amounts == {-1, 2}
Limits == -1 .. MaxRows

Digits == <<"0", "1", "2", "3", "4", "5", "6", "7", "8", "9">>
Digit(n) == Digits[(n % 10) + 1]

\* the code point of a character of a timestamp, as SQLite compares TEXT
Ord(c) ==
    CASE c = "." -> 46
      [] c = "Z" -> 90
      [] OTHER -> 47 + (CHOOSE i \in 1 .. 10 : Digits[i] = c)

\* datetime.isoformat().replace('+00:00', 'Z') of the time t: isoformat
\* leaves the fraction out when the microsecond is 0
IsoFormat(t) ==
    IF t % TicksPerSecond = 0
    THEN <<Digit(t \div TicksPerSecond), "Z">>
    ELSE <<Digit(t \div TicksPerSecond), ".", Digit(t % TicksPerSecond), "Z">>

\* timestamp=None, since=None
NoStamp == <<>>
\* the timestamps a caller passes: none, or that of the first tick
Timestamps == {NoStamp, IsoFormat(0)}

\* a < b for two TEXT values under SQLite's BINARY collation (memcmp, then
\* the shorter first)
RECURSIVE TextLess(_, _)
TextLess(a, b) ==
    IF b = <<>> THEN FALSE
    ELSE IF a = <<>> THEN TRUE
    ELSE IF Ord(Head(a)) # Ord(Head(b)) THEN Ord(Head(a)) < Ord(Head(b))
    ELSE TextLess(Tail(a), Tail(b))

NoCall == [op |-> "none", account |-> "", limit |-> 0, since |-> NoStamp,
           rows |-> <<>>, value |-> 0]
EmptyLedger == [rows |-> <<>>, now |-> 0, ret |-> NoCall]

\* add_transaction: the timestamp defaults to the clock's, float(amount) is
\* exact for the amounts of the model, the id is the next AUTOINCREMENT one
AddTransaction(rows, now, account_id, amount, timestamp) ==
    Append(rows, [id |-> Len(rows) + 1, account_id |-> account_id, amount |-> amount,
                  timestamp |-> IF timestamp = NoStamp THEN IsoFormat(now) ELSE timestamp])

\* get_transactions builds its clauses with `if account_id:` and `if since:`,
\* so an empty account_id or since adds no clause
Selected(rows, account_id, since) ==
    LET keep(r) ==
            /\ account_id # "" => r.account_id = account_id
            /\ since # NoStamp => ~TextLess(r.timestamp, since)
    IN SelectSeq(rows, keep)

\* ORDER BY timestamp DESC: SQL fixes no order between rows of equal
\* timestamp, so every descending arrangement is a possible result
OrderByTimestampDesc(sel) ==
    {[i \in 1 .. Len(sel) |-> sel[p[i]]] :
        p \in {f \in [1 .. Len(sel) -> 1 .. Len(sel)] :
                 /\ \A i, j \in 1 .. Len(sel) : i # j => f[i] # f[j]
                 /\ \A i, j \in 1 .. Len(sel) :
                        i < j => ~TextLess(sel[f[i]].timestamp, sel[f[j]].timestamp)}}

\* LIMIT ?: a negative limit is no limit
Limit(s, n) == IF n < 0 THEN s ELSE SubSeq(s, 1, Min(n, Len(s)))

\* the lists get_transactions can return
GetTransactions(rows, account_id, limit, since) ==
    {Limit(o, limit) : o \in OrderByTimestampDesc(Selected(rows, account_id, since))}

RECURSIVE SumAmount(_)
SumAmount(rows) == IF rows = <<>> THEN 0 ELSE Head(rows).amount + SumAmount(Tail(rows))

\* a balance that adds up the whole table
GetBalanceOfAll(rows, account_id) == SumAmount(rows)

\* get_balance: SUM(amount) is NULL over no rows, and `or 0.0` turns NULL
\* (and a sum of 0) into 0.0
GetBalance(rows, account_id) ==
    LET keep(r) == r.account_id = account_id
        sel == SelectSeq(rows, keep)
    IN IF sel = <<>> \/ SumAmount(sel) = 0 THEN 0 ELSE SumAmount(sel)

----------------------------------------------------------------------------
(* The classifier of guardrails.py.  A string is the sequence of its       *)
(* characters.  A JSON value is a string, a boolean, a number, null or an  *)
(* object; an object is a function from its keys to values.                *)

MaxAttempts == 3

LowerCase == <<"a", "b", "c", "d", "e", "f", "g", "h", "i", "j", "k", "l", "m", "n", "o", "p", "q", "r", "s", "t", "u", "v", "w", "x", "y", "z">>
UpperCase == <<"A", "B", "C", "D", "E", "F", "G", "H", "I", "J", "K", "L", "M", "N", "O", "P", "Q", "R", "S", "T", "U", "V", "W", "X", "Y", "Z">>

\* str.lower() on one character and on a string
Lower(c) ==
    IF \E i \in 1 .. 26 : UpperCase[i] = c
    THEN LowerCase[CHOOSE i \in 1 .. 26 : UpperCase[i] = c]
    ELSE c
LowerAll(w) == [i \in 1 .. Len(w) |-> Lower(w[i])]
Upper(c) ==
    IF \E i \in 1 .. 26 : LowerCase[i] = c
    THEN UpperCase[CHOOSE i \in 1 .. 26 : LowerCase[i] = c]
    ELSE c

\* str.strip()
RECURSIVE StripLeft(_)
StripLeft(w) == IF w # <<>> /\ Head(w) = " " THEN StripLeft(Tail(w)) ELSE w
RECURSIVE StripRight(_)
StripRight(w) ==
    IF w # <<>> /\ w[Len(w)] = " " THEN StripRight(SubSeq(w, 1, Len(w) - 1)) ELSE w
Strip(w) == StripRight(StripLeft(w))

JStr(w) == [t |-> "str", b |-> FALSE, s |-> w]
JBool(b) == [t |-> "bool", b |-> b, s |-> <<>>]
JNum(nonzero) == [t |-> "num", b |-> nonzero, s |-> <<>>]
JNull == [t |-> "null", b |-> FALSE, s |-> <<>>]

Yes == <<"y", "e", "s">>
No == <<"n", "o">>
True == <<"t", "r", "u", "e">>
False == <<"f", "a", "l", "s", "e">>
Allow == <<"a", "l", "l", "o", "w">>
Block == <<"b", "l", "o", "c", "k">>

\* str(v) of a JSON value that is not a string
PyStr(v) ==
    CASE v.t = "str" -> v.s
      [] v.t = "bool" -> IF v.b THEN <<"T", "r", "u", "e">> ELSE <<"F", "a", "l", "s", "e">>
      [] v.t = "num" -> IF v.b THEN <<"1">> ELSE <<"0">>
      [] OTHER -> <<"N", "o", "n", "e">>

\* the fields of GuardrailOutput and the alias of each
Fields == {"toxicity", "prompt_injection", "pii_except_name", "violence",
           "verdict", "rationale"}
Categories == {"toxicity", "prompt_injection", "pii_except_name", "violence"}
Alias(f) ==
    CASE f = "toxicity" -> "Toxicity"
      [] f = "prompt_injection" -> "Prompt Injection"
      [] f = "pii_except_name" -> "PII (except name)"
      [] f = "violence" -> "Violence"
      [] OTHER -> f

Rejected == [ok |-> FALSE, v |-> JNull]
Accepted(w) == [ok |-> TRUE, v |-> JStr(w)]

\* _coerce_yes_no
CoerceYesNo(v) ==
    IF v.t \in {"bool", "num"} THEN Accepted(IF v.b THEN Yes ELSE No)
    ELSE IF v.t = "str"
    THEN LET vv == LowerAll(Strip(v.s))
         IN IF vv \in {Yes, No} THEN Accepted(vv)
            ELSE IF vv \in {True, False} THEN Accepted(IF vv = True THEN Yes ELSE No)
            ELSE Rejected
    ELSE Rejected

\* a verdict validator that keeps the letters as they came
CoerceVerdictAsIs(v) ==
    IF v.t = "str" /\ LowerAll(Strip(v.s)) \in {Allow, Block}
    THEN Accepted(Strip(v.s))
    ELSE Rejected

\* _coerce_verdict
CoerceVerdict(v) ==
    IF v.t = "str" /\ LowerAll(Strip(v.s)) \in {Allow, Block}
    THEN Accepted(LowerAll(Strip(v.s)))
    ELSE Rejected

\* _rationale_to_str, then str_strip_whitespace
RationaleToStr(v) == Accepted(Strip(PyStr(v)))

\* populate_by_name: a field is read from its alias or else from its name
Present(obj, f) == Alias(f) \in DOMAIN obj \/ f \in DOMAIN obj
KeyUsed(obj, f) == IF Alias(f) \in DOMAIN obj THEN Alias(f) ELSE f

Coerced(obj, f) ==
    IF ~Present(obj, f) THEN Rejected
    ELSE IF f \in Categories THEN CoerceYesNo(obj[KeyUsed(obj, f)])
    ELSE IF f = "verdict" THEN CoerceVerdict(obj[KeyUsed(obj, f)])
    ELSE RationaleToStr(obj[KeyUsed(obj, f)])

\* GuardrailOutput(**parsed) raises when parsed is not a mapping, a field is
\* missing or a validator raises
Valid(j) == j.t = "obj" /\ \A f \in Fields : Coerced(j.o, f).ok

\* gw.model_dump(): the fields under their names, and with extra="allow"
\* every key that fed no field under its own name
ModelDump(obj) ==
    LET extras == DOMAIN obj \ ({KeyUsed(obj, f) : f \in Fields} \cup Fields)
    IN [k \in Fields \cup extras |-> IF k \in Fields THEN Coerced(obj, k).v ELSE obj[k]]

(* The text of a response is written over a small alphabet: the braces,   *)
(* the double quote, the backslash, "x" for any other character, "0" for a *)
(* number, "n" for the literal null, "M" for the members of an object (a   *)
(* run "key": value, ... with its quotes balanced, no brace and no         *)
(* backslash) and "k" for a key with its colon ("note":).  A text carries  *)
(* the object its members spell.  "M" and "k" begin and end with a double  *)
(* quote of their own and hold an even number of them.                     *)

EmptyObject == [k \in {} |-> JNull]
Text(chars, obj) == [none |-> FALSE, chars |-> chars, o |-> obj]
\* last_raw = None
NoRaw == [none |-> TRUE, chars |-> <<>>, o |-> EmptyObject]

\* what json.loads and _extract_json_from_text give: an object, a value
\* that is no object (a number, a string), or None
JObject(obj) == [t |-> "obj", o |-> obj]
JOther == [t |-> "other", o |-> EmptyObject]
JNone == [t |-> "none", o |-> EmptyObject]

Loaded(j) == [ok |-> TRUE, j |-> j]
JSONDecodeError == [ok |-> FALSE, j |-> JNone]

\* a value that is an object, as the value of a key
JDict == [t |-> "dict", b |-> FALSE, s |-> <<>>]

\* the characters that stand for a run with double quotes of its own
Atoms == {"M", "k"}
Note == <<"n", "o", "t", "e">>

\* what the decoder makes of the text from some position: whether it is a
\* value, where the value ends, and whether it is a string that a colon
\* follows (a key)
NoValue == [ok |-> FALSE, next |-> 0, v |-> JNull, o |-> EmptyObject, key |-> FALSE]
Value(next, v, o) == [ok |-> TRUE, next |-> next, v |-> v, o |-> o, key |-> FALSE]

\* the JSON decoder on the body of a string literal from position i: the
\* closing quote ends it, a backslash takes the next character with it.
\* The first quote of "k" ends the string and leaves text after it; behind
\* a backslash that quote is escaped, the string ends at the second quote
\* of "k" and the colon follows.
RECURSIVE JsonString(_, _, _)
JsonString(c, i, acc) ==
    IF i > Len(c) THEN NoValue
    ELSE IF c[i] = "\"" THEN Value(i + 1, JStr(acc), EmptyObject)
    ELSE IF c[i] = "\\"
    THEN IF i + 1 <= Len(c) /\ c[i + 1] \in {"\"", "\\"}
         THEN JsonString(c, i + 2, Append(acc, c[i + 1]))
         ELSE IF i + 1 <= Len(c) /\ c[i + 1] = "n"
         THEN JsonString(c, i + 2, Append(acc, " "))
         ELSE IF i + 1 <= Len(c) /\ c[i + 1] = "k"
         THEN [Value(i + 2, JStr(acc \o <<"\"">> \o Note), EmptyObject) EXCEPT !.key = TRUE]
         ELSE NoValue
    ELSE IF c[i] \in Atoms THEN NoValue
    ELSE JsonString(c, i + 1, Append(acc, c[i]))

\* the JSON decoder on the value that begins at position i of c
RECURSIVE JsonValue(_, _, _)
JsonValue(c, i, obj) ==
    IF i > Len(c) THEN NoValue
    ELSE IF c[i] = "0" THEN Value(i + 1, JNum(FALSE), EmptyObject)
    ELSE IF c[i] = "n" THEN Value(i + 1, JNull, EmptyObject)
    ELSE IF c[i] = "\""
    THEN IF JsonString(c, i + 1, <<>>).key THEN NoValue ELSE JsonString(c, i + 1, <<>>)
    ELSE IF c[i] = "{" /\ i + 1 <= Len(c)
    THEN IF c[i + 1] = "}" THEN Value(i + 2, JDict, EmptyObject)
         ELSE IF c[i + 1] = "M"
         THEN IF i + 2 <= Len(c) /\ c[i + 2] = "}" THEN Value(i + 3, JDict, obj)
              ELSE NoValue
         ELSE IF c[i + 1] = "k"
         THEN LET r == JsonValue(c, i + 2, obj)
              IN IF r.ok /\ r.next <= Len(c) /\ c[r.next] = "}"
                 THEN Value(r.next + 1, JDict, [key \in {Note} |-> r.v])
                 ELSE NoValue
         ELSE IF c[i + 1] = "\"" /\ JsonString(c, i + 2, <<>>).key
         THEN LET key == JsonString(c, i + 2, <<>>)
                  r == JsonValue(c, key.next, obj)
              IN IF r.ok /\ r.next <= Len(c) /\ c[r.next] = "}"
                 THEN Value(r.next + 1, JDict, [name \in {key.v.s} |-> r.v])
                 ELSE NoValue
         ELSE NoValue
    ELSE NoValue

\* json.loads on the characters c of a text whose members spell obj
JsonLoads(c, obj) ==
    LET r == JsonValue(c, 1, obj)
    IN IF r.ok /\ r.next = Len(c) + 1
       THEN Loaded(IF r.v = JDict THEN JObject(r.o)
                   ELSE IF r.v = JNull THEN JNone
                   ELSE JOther)
       ELSE JSONDecodeError

\* a scan that counts the braces inside strings too
RECURSIVE ScanSpanCountsQuoted(_, _, _, _, _)
ScanSpanCountsQuoted(s, j, depth, in_str, esc) ==
    IF j > Len(s) THEN 0
    ELSE IF s[j] = "{" THEN ScanSpanCountsQuoted(s, j + 1, depth + 1, in_str, esc)
    ELSE IF s[j] = "}"
    THEN IF depth - 1 = 0 THEN j ELSE ScanSpanCountsQuoted(s, j + 1, depth - 1, in_str, esc)
    ELSE ScanSpanCountsQuoted(s, j + 1, depth, in_str, esc)

\* the inner loop of _find_first_json_substring from position j: the
\* position of the brace that closes the span, or 0 when there is none.
\* Behind a backslash the first quote of "M" or "k" is escaped and its last
\* quote ends the string; elsewhere its quotes pair up.
RECURSIVE ScanSpan(_, _, _, _, _)
ScanSpan(s, j, depth, in_str, esc) ==
    IF j > Len(s) THEN 0
    ELSE IF in_str
    THEN IF esc THEN ScanSpan(s, j + 1, depth, s[j] \notin Atoms, FALSE)
         ELSE IF s[j] = "\\" THEN ScanSpan(s, j + 1, depth, TRUE, TRUE)
         ELSE IF s[j] = "\"" THEN ScanSpan(s, j + 1, depth, FALSE, esc)
         ELSE ScanSpan(s, j + 1, depth, TRUE, esc)
    ELSE IF s[j] = "\"" THEN ScanSpan(s, j + 1, depth, TRUE, esc)
    ELSE IF s[j] = "{" THEN ScanSpan(s, j + 1, depth + 1, FALSE, esc)
    ELSE IF s[j] = "}"
    THEN IF depth - 1 = 0 THEN j ELSE ScanSpan(s, j + 1, depth - 1, FALSE, esc)
    ELSE ScanSpan(s, j + 1, depth, FALSE, esc)

\* _find_first_json_substring: <<>> stands for None
RECURSIVE FindFirstJsonSubstring(_, _)
FindFirstJsonSubstring(s, i) ==
    IF i > Len(s) THEN <<>>
    ELSE IF s[i] # "{" THEN FindFirstJsonSubstring(s, i + 1)
    ELSE IF ScanSpan(s, i, 0, FALSE, FALSE) # 0
    THEN SubSeq(s, i, ScanSpan(s, i, 0, FALSE, FALSE))
    ELSE FindFirstJsonSubstring(s, i + 1)

\* _extract_json_from_text
ExtractJsonFromText(text) ==
    IF text.chars = <<>> THEN JNone
    ELSE IF JsonLoads(text.chars, text.o).ok THEN JsonLoads(text.chars, text.o).j
    ELSE LET sub == FindFirstJsonSubstring(text.chars, 1)
         IN IF sub = <<>> THEN JNone
            ELSE IF JsonLoads(sub, text.o).ok THEN JsonLoads(sub, text.o).j
            ELSE JNone

(* One call of _extract_json_from_text on a text of at most MaxChars       *)
(* characters.                                                             *)

MaxChars == 7

Alphabet == {"{", "}", "\"", "\\", "k"}

RECURSIVE Strings(_)
Strings(n) ==
    IF n = 0 THEN {<<>>}
    ELSE Strings(n - 1) \cup
         {Append(w, c) : w \in {v \in Strings(n - 1) : Len(v) = n - 1}, c \in Alphabet}

IdleExtract == [called |-> FALSE, text |-> NoRaw, ret |-> JNone]

(* The responses of the model's LLM *)

\* the key a response spells a field with
Key(f, spelling) ==
    CASE spelling = "alias" -> Alias(f)
      [] spelling = "name" -> f
      [] OTHER -> IF f = "toxicity" THEN "TOXICITY" ELSE Alias(f)

ValueOf(f, cat, ver, rat) ==
    IF f = "toxicity" THEN cat
    ELSE IF f = "verdict" THEN ver
    ELSE IF f = "rationale" THEN rat
    ELSE JStr(No)

Object(spelling, cat, ver, rat) ==
    [k \in {Key(f, spelling) : f \in Fields} |->
        ValueOf(CHOOSE f \in Fields : Key(f, spelling) = k, cat, ver, rat)]

Without(obj, k) == [j \in DOMAIN obj \ {k} |-> obj[j]]
With(obj, k, v) == [j \in DOMAIN obj \cup {k} |-> IF j = k THEN v ELSE obj[j]]

\* a word in every letter case
AnyCase(w) ==
    {[i \in 1 .. Len(w) |-> IF i \in up THEN Upper(w[i]) ELSE w[i]] :
        up \in SUBSET (1 .. Len(w))}

Safe == <<"s", "a", "f", "e">>
YesNoValues == {JStr(Yes), JStr(No), JStr(<<"Y", "e", "s">>), JStr(<<" ", "N", "O">>)}
Verdicts == {JStr(w) : w \in AnyCase(Allow) \cup AnyCase(Block)}

\* the objects the system prompt asks for
WellFormed ==
    {Object(sp, cat, JStr(Allow), JStr(Safe)) :
        sp \in {"alias", "name"}, cat \in YesNoValues} \cup
    {Object("alias", JStr(No), ver, JStr(Safe)) : ver \in Verdicts}

Plain == Object("alias", JStr(No), JStr(Allow), JStr(Safe))

\* objects the validators coerce, and objects they refuse
Coercible ==
    {Object("alias", JBool(TRUE), JStr(Block), JNum(TRUE)),
     Object("name", JStr(True), JStr(<<"a", "l", "l", "o", "w", " ">>), JNull),
     With(Plain, "confidence", JNum(TRUE))}
Mismatched ==
    {Without(Plain, Alias(f)) : f \in Fields} \cup
    {Object("alias", JStr(<<"m", "a", "y", "b", "e">>), JStr(Allow), JStr(Safe)),
     Object("alias", JNull, JStr(Allow), JStr(Safe)),
     Object("alias", JStr(No), JStr(<<"d", "e", "n", "y">>), JStr(Safe)),
     Object("alias", JStr(No), JBool(TRUE), JStr(Safe)),
     Object("other", JStr(No), JStr(Allow), JStr(Safe))}
Objects == WellFormed \cup Coercible \cup Mismatched

\* the shapes a response text takes
Shapes ==
    {<<"{", "M", "}">>, <<"x", "{", "M", "}", "x">>, <<"{", "}">>,
     <<"x">>, <<"{", "x", "}", "{", "M", "}">>, <<"{", "M">>, <<"n">>, <<"0">>}

Prose == Text(<<"x">>, EmptyObject)

\* a call of the LLM raises (str is then the message of the exception), or
\* returns a response: an object whose content is a text (str(resp) is then
\* its repr), or a value without content
Raises == [exc |-> TRUE, content |-> NoRaw, str |-> Prose]
Responses ==
    {Raises, [Raises EXCEPT !.str = Text(<<"{", "M", "}">>, Plain)]} \cup
    {[exc |-> FALSE, content |-> Text(c, IF \E i \in 1 .. Len(c) : c[i] = "M" THEN o ELSE EmptyObject),
      str |-> Prose] : c \in Shapes \cup {<<>>}, o \in Objects} \cup
    {[exc |-> FALSE, content |-> NoRaw, str |-> Text(c, Plain)] :
        c \in {<<"{", "M", "}">>, <<"{", "M">>}}

\* getattr(resp, "content", None) or str(resp)
RawText(resp) ==
    IF resp.content.none \/ resp.content.chars = <<>> THEN resp.str ELSE resp.content

(* One run of guardrail_check(user_prompt, llm, max_attempts): iface is   *)
(* how the llm is called, repr is str(llm), attempt counts the passes of   *)
(* the for loop begun, calls the calls of the LLM made, raised says        *)
(* whether the last call raised, result is the dict returned; llm says     *)
(* whether a client was given or could be built.                           *)

Ifaces == {"invoke", "callable", "generate", "str"}

NoResult == [kind |-> "none", error |-> "", parsed |-> JNone, raw |-> NoRaw]
IdleGuard ==
    [pc |-> "idle", llm |-> FALSE, iface |-> "invoke", repr |-> Prose, max_attempts |-> 0,
     attempt |-> 0, calls |-> 0, raised |-> FALSE, last_raw |-> NoRaw,
     result |-> NoResult]

\* the llm is of no account once the function has returned
Return(g, result) ==
    [g EXCEPT !.pc = "done", !.result = result, !.iface = "invoke", !.repr = Prose]

\* if llm is None: llm = _build_llm_from_env(); a client built from the
\* environment is a ChatOpenAI, which has invoke
Entered(iface, envOk, repr, max_attempts) ==
    LET g == [IdleGuard EXCEPT !.max_attempts = max_attempts, !.repr = repr,
                               !.iface = IF iface = "None" THEN "invoke" ELSE iface]
    IN IF iface = "None" /\ ~envOk
       THEN Return(g, [NoResult EXCEPT !.kind = "error", !.error = "no_llm"])
       ELSE [g EXCEPT !.pc = "loop", !.llm = TRUE]

\* what the body of the loop does with the value it extracted
Decide(g, raw, parsed, called) ==
    LET h == [g EXCEPT !.attempt = @ + 1, !.calls = @ + (IF called THEN 1 ELSE 0),
                       !.last_raw = raw, !.raised = FALSE]
    IN IF parsed = JNone THEN h
       ELSE IF Valid(parsed)
       THEN Return(h, [NoResult EXCEPT !.kind = "parsed",
                                       !.parsed = JObject(ModelDump(parsed.o))])
       ELSE Return(h, [NoResult EXCEPT !.kind = "warning", !.error = "structure_mismatch",
                                       !.parsed = parsed])

\* a body that goes on to the next attempt when validation fails
AfterAttemptRetryInvalid(g, resp) ==
    IF g.iface # "str" /\ resp.exc
    THEN [g EXCEPT !.attempt = @ + 1, !.calls = @ + 1, !.last_raw = resp.str,
                   !.raised = TRUE]
    ELSE LET raw == IF g.iface = "str" THEN g.repr ELSE RawText(resp)
             d == Decide(g, raw, ExtractJsonFromText(raw), g.iface # "str")
         IN IF d.result.kind = "warning" THEN [d EXCEPT !.pc = "loop", !.result = NoResult]
            ELSE d

\* a body without `except Exception`: the error of the LLM leaves the function
AfterAttemptNoExcept(g, resp) ==
    IF g.iface # "str" /\ resp.exc
    THEN Return([g EXCEPT !.attempt = @ + 1, !.calls = @ + 1, !.last_raw = resp.str,
                          !.raised = TRUE],
                [NoResult EXCEPT !.kind = "raised"])
    ELSE LET raw == IF g.iface = "str" THEN g.repr ELSE RawText(resp)
         IN Decide(g, raw, ExtractJsonFromText(raw), g.iface # "str")

\* one pass of the for loop on the response resp of the LLM
AfterAttempt(g, resp) ==
    IF g.iface # "str" /\ resp.exc
    THEN [g EXCEPT !.attempt = @ + 1, !.calls = @ + 1, !.last_raw = resp.str,
                   !.raised = TRUE]
    ELSE LET raw == IF g.iface = "str" THEN g.repr ELSE RawText(resp)
         IN Decide(g, raw, ExtractJsonFromText(raw), g.iface # "str")

\* return {"error": "no_valid_json", "raw": last_raw}
Exhausted(g) ==
    Return(g, [NoResult EXCEPT !.kind = "error", !.error = "no_valid_json",
                               !.raw = g.last_raw])

----------------------------------------------------------------------------
(* The HTTP handler of mcp_server.py.  A request is its path, its          *)
(* Content-Length header (a number, or "bad" for one int() refuses), what  *)
(* json.loads makes of its body ("invalid", "other" for a value that is no *)
(* object, "object"), the action of the object, and its payload ("absent", *)
(* "other" for a value that is no object, "dict").  The payload names the  *)
(* database ("db" for an initialised one, "bad" for a path sqlite cannot   *)
(* open, "missing" for none or an empty one), the account ("" for none or  *)
(* an empty one), the amount                                               *)
(* and the limit (missing, a number, or "bad" for a value float() or int() *)
(* refuses).                                                               *)

Missing == [kind |-> "missing", v |-> 0]
Num(n) == [kind |-> "num", v |-> n]
Bad == [kind |-> "bad", v |-> 0]

\* data = payload.get("payload", {}) with nothing in it
EmptyData == [db_path |-> "missing", account_id |-> "", amount |-> Missing, limit |-> Missing]

Request(path, length, json, action, payload, data) ==
    [path |-> path, length |-> length, json |-> json, action |-> action,
     payload |-> payload, data |-> data]

Actions == {"add_transaction", "list_transactions", "get_balance"}

\* the requests of the model
Requests ==
    {Request(p, "ok", j, "", "absent", EmptyData) :
        p \in {"/mcp", "/"}, j \in {"invalid", "other"}} \cup
    {Request("/mcp", "bad", "object", "get_balance", "absent", EmptyData)} \cup
    {Request(p, "ok", "object", a, d, EmptyData) :
        p \in {"/mcp", "/"}, a \in Actions \cup {"", "delete"}, d \in {"absent", "other"}} \cup
    {Request("/mcp", "ok", "object", "add_transaction", "dict",
             [EmptyData EXCEPT !.db_path = db, !.account_id = a, !.amount = m]) :
        db \in {"missing", "db", "bad"}, a \in Accounts,
        m \in {Missing, Bad} \cup {Num(n) : n \in Amounts}} \cup
    {Request("/mcp", "ok", "object", "list_transactions", "dict",
             [EmptyData EXCEPT !.db_path = db, !.account_id = a, !.limit = n]) :
        db \in {"missing", "db", "bad"}, a \in Accounts,
        n \in {Missing, Bad} \cup {Num(l) : l \in Limits}} \cup
    {Request("/mcp", "ok", "object", "get_balance", "dict",
             [EmptyData EXCEPT !.db_path = db, !.account_id = a]) :
        db \in {"missing", "db", "bad"}, a \in Accounts}

NoRequest ==
    [handled |-> FALSE, req |-> Request("/mcp", "ok", "invalid", "", "absent", EmptyData),
     sent |-> <<>>, raised |-> FALSE]

\* _send_json(status, payload): one response is written; do_POST then
\* returns.  Of the payload the model keeps the error and, on success, the
\* id, the balance or the number of transactions.
SendJson(L, status, error, value) ==
    [sent |-> <<[status |-> status, error |-> error, value |-> value]>>,
     raised |-> FALSE, ledger |-> L]

\* an exception leaves do_POST: nothing was sent, and the server closes the
\* connection
Escapes(L) == [sent |-> <<>>, raised |-> TRUE, ledger |-> L]

\* float(data.get("amount", 0)) and int(data.get("limit", 100))
FloatOf(amount) == IF amount.kind = "missing" THEN 0 ELSE amount.v
IntOf(limit) == IF limit.kind = "missing" THEN 100 ELSE limit.v

\* the branch of do_POST for add_transaction
PostAdd(data, L) ==
    IF data.amount.kind = "bad" THEN {Escapes(L)}
    ELSE IF data.db_path = "missing" \/ data.account_id = ""
    THEN {SendJson(L, 400, "missing_parameters", 0)}
    ELSE IF data.db_path = "bad" THEN {SendJson(L, 500, "server_error", 0)}
    ELSE {SendJson([L EXCEPT !.rows = AddTransaction(@, L.now, data.account_id,
                                                     FloatOf(data.amount), NoStamp)],
                   200, "", Len(L.rows) + 1)}

\* the branch of do_POST for list_transactions
PostList(data, L) ==
    IF data.limit.kind = "bad" THEN {Escapes(L)}
    ELSE IF data.db_path = "missing" THEN {SendJson(L, 400, "missing_db_path", 0)}
    ELSE IF data.db_path = "bad" THEN {SendJson(L, 500, "server_error", 0)}
    ELSE {SendJson(L, 200, "", Len(txs)) :
            txs \in GetTransactions(L.rows, data.account_id, IntOf(data.limit), NoStamp)}

\* the branch of do_POST for get_balance
PostBalance(data, L) ==
    IF data.db_path = "missing" \/ data.account_id = ""
    THEN {SendJson(L, 400, "missing_parameters", 0)}
    ELSE IF data.db_path = "bad" THEN {SendJson(L, 500, "server_error", 0)}
    ELSE {SendJson(L, 200, "", GetBalance(L.rows, data.account_id))}

\* do_POST on the request req with the ledger L: what it can send and leave.
\* payload.get and data.get raise AttributeError on a value that is no object.
DoPostOn(req, L) ==
    IF req.path # "/mcp" THEN {SendJson(L, 404, "not_found", 0)}
    ELSE IF req.length = "bad" THEN {Escapes(L)}
    ELSE IF req.json = "invalid" THEN {SendJson(L, 400, "invalid_json", 0)}
    ELSE IF req.json # "object" THEN {Escapes(L)}
    ELSE IF req.action \notin Actions THEN {SendJson(L, 400, "unknown_action", 0)}
    ELSE IF req.payload = "other" THEN {Escapes(L)}
    ELSE LET data == IF req.payload = "dict" THEN req.data ELSE EmptyData
         IN CASE req.action = "add_transaction" -> PostAdd(data, L)
              [] req.action = "list_transactions" -> PostList(data, L)
              [] OTHER -> PostBalance(data, L)

----------------------------------------------------------------------------
(* The manager *)

\* RAGManager.__init__: faiss_backend.client raises when faiss is not
\* installed or the storage directory cannot be made, and the manager then
\* falls back to the in-memory store
Construct(installed, dirOk) ==
    IF installed /\ dirOk
    THEN [backend |-> "faiss", col |-> "handle"]
    ELSE [backend |-> "memory", col |-> "None"]

\* the test every method makes to choose its branch
Dispatch == backend = "faiss" /\ col # "None"

Failed == [kind |-> "fail", step |-> 0, partial |-> FALSE]

\* a call as its caller sees it: its arguments, the file operation that went
\* wrong in it, what it returned, and whether the call before it was clear()
Call(op, b, q, k, out, ret) ==
    [op |-> op, batch |-> b, q |-> q, k |-> k,
     out |-> [kind |-> out.kind, step |-> out.step],
     ret |-> ret, fresh |-> last.op = "clear"]

Longest(dk) ==
    Max(Max(Len(LoadIndex(dk).rows), Len(LoadList(dk.ids))),
        Max(Len(LoadList(dk.texts)), Len(LoadList(dk.metas))))

\* the model stops adding when a store would pass MaxStored documents
Room(b) ==
    /\ Len(mem.ids) + Len(b) <= MaxStored
    /\ Longest(disk) + Len(b) <= MaxStored

\* what add_documents does with a batch before it takes the lock: it
\* returns at once on an empty one, and np.array raises on a ragged one
Usable(b) == b # <<>> /\ Rectangular(b)

AddNothing(b) ==
    /\ ~Usable(b)
    /\ last' = Call("add", b, None, 0, AllOk, IF b = <<>> THEN Ok(<<>>) ELSE Raise)
    /\ UNCHANGED <<mem, disk, col>>

\* the section of add_documents under the lock
AddSection(b, out) ==
    /\ Usable(b) /\ Room(b)
    /\ out.kind # "crash"
    /\ IF Dispatch
       THEN /\ disk' = FsAdd(disk, b, out).store
            /\ mem' = mem
            /\ last' = Call("add", b, None, 0, out, FsAdd(disk, b, out).ret)
       ELSE /\ out = AllOk
            /\ mem' = MemAdd(mem, b).store
            /\ disk' = disk
            /\ last' = Call("add", b, None, 0, out, MemAdd(mem, b).ret)
    /\ col' = col

\* a search that takes what it returns out of the store
SearchSectionForgets(q, k) ==
    /\ last' = Call("search", <<>>, q, k, AllOk,
                    IF Dispatch THEN FsQuery(disk, Embed(q), k)
                    ELSE MemSearch(mem, Embed(q), k))
    /\ mem' = MemClear(mem)
    /\ disk' = DeleteCollection(disk, {})
    /\ col' = col

\* the section of search under the lock; q is the text of the query
SearchSection(q, k) ==
    /\ last' = Call("search", <<>>, q, k, AllOk,
                    IF Dispatch THEN FsQuery(disk, Embed(q), k)
                    ELSE MemSearch(mem, Embed(q), k))
    /\ UNCHANGED <<mem, disk, col>>

\* persist: faiss_backend.persist does nothing
PersistSection ==
    /\ last' = Call("persist", <<>>, None, 0, AllOk, Ok(<<>>))
    /\ UNCHANGED <<mem, disk, col>>

\* clear that forgets its collection handle when client() raises
ClearSectionDropsHandle(stuck, dirOk) ==
    IF Dispatch
    THEN /\ disk' = DeleteCollection(disk, stuck)
         /\ mem' = mem
         /\ col' = IF dirOk THEN "handle" ELSE "None"
         /\ last' = Call("clear", <<>>, None, 0, IF dirOk THEN AllOk ELSE Failed,
                         IF dirOk THEN Ok(<<>>) ELSE Raise)
    ELSE /\ stuck = {} /\ dirOk
         /\ mem' = MemClear(mem)
         /\ disk' = disk
         /\ col' = col
         /\ last' = Call("clear", <<>>, None, 0, AllOk, Ok(<<>>))

\* the section of clear under the lock; on the filesystem backend the
\* collection is deleted and client() is called again, which can raise
\* before self._client and self._col are assigned
ClearSection(stuck, dirOk) ==
    IF Dispatch
    THEN /\ disk' = DeleteCollection(disk, stuck)
         /\ mem' = mem
         /\ col' = IF dirOk THEN "handle" ELSE col
         /\ last' = Call("clear", <<>>, None, 0, IF dirOk THEN AllOk ELSE Failed,
                         IF dirOk THEN Ok(<<>>) ELSE Raise)
    ELSE /\ stuck = {} /\ dirOk
         /\ mem' = MemClear(mem)
         /\ disk' = disk
         /\ col' = col
         /\ last' = Call("clear", <<>>, None, 0, AllOk, Ok(<<>>))

----------------------------------------------------------------------------
(* One caller: every method runs from call to return in one step *)

AllIdle == \A t \in Threads : pc[t] = "idle"

\* the model injects at most MaxFaults failures in one behaviour
Inject(faulty) ==
    /\ faulty => faults < MaxFaults
    /\ faults' = IF faulty THEN faults + 1 ELSE faults

AddDocuments(b, out) ==
    /\ AllIdle
    /\ Inject(out # AllOk)
    /\ AddNothing(b) \/ AddSection(b, out)
    /\ UNCHANGED <<others, backend, pc, lock>>

Search(q, k) ==
    /\ AllIdle
    /\ SearchSection(q, k)
    /\ UNCHANGED <<others, backend, pc, lock, faults>>

Persist ==
    /\ AllIdle
    /\ PersistSection
    /\ UNCHANGED <<others, backend, pc, lock, faults>>

Clear(stuck, dirOk) ==
    /\ AllIdle
    /\ Inject(stuck # {} \/ ~dirOk)
    /\ ClearSection(stuck, dirOk)
    /\ UNCHANGED <<others, backend, pc, lock>>

\* the process dies inside faiss_backend.add; a new process then builds a
\* new manager over the same storage directory
CrashInAdd(b, out, dirOk) ==
    /\ AllIdle /\ Dispatch
    /\ out.kind = "crash"
    /\ Inject(TRUE)
    /\ Usable(b) /\ Room(b)
    /\ disk' = FsAdd(disk, b, out).store
    /\ mem' = EmptyMem
    /\ backend' = Construct(TRUE, dirOk).backend
    /\ col' = Construct(TRUE, dirOk).col
    /\ last' = Call("add", b, None, 0, out, [status |-> "crash", results |-> <<>>])
    /\ UNCHANGED <<others, pc, lock>>

\* a manager built over a storage directory that holds the files dk
InitOver(installed, dirOk, dk) ==
    /\ backend = Construct(installed, dirOk).backend
    /\ col = Construct(installed, dirOk).col
    /\ mem = EmptyMem
    /\ disk = dk
    /\ last = [op |-> "init", batch |-> <<>>, q |-> None, k |-> 0,
               out |-> IF installed /\ dirOk THEN [kind |-> "ok", step |-> 0]
                       ELSE [kind |-> "fail", step |-> 0],
               ret |-> Ok(<<>>), fresh |-> FALSE]
    /\ pc = [t \in Threads |-> "idle"]
    /\ lock = 0
    /\ faults = 0
    /\ ledger = EmptyLedger
    /\ guard = IdleGuard
    /\ extract = IdleExtract
    /\ http = NoRequest

InitWith(installed, dirOk) == InitOver(installed, dirOk, EmptyDisk)

\* a manager built over a fresh storage directory, faiss installed or not
Init == \E installed \in BOOLEAN : InitWith(installed, TRUE)

Next ==
    \/ \E b \in Batches : AddDocuments(b, AllOk)
    \/ \E q \in Docs, k \in Ks : Search(q, k)
    \/ Persist
    \/ Clear({}, TRUE)

Spec == Init /\ [][Next]_vars

(* The same caller when file operations can fail and the process can die *)

InitFault == \E installed \in BOOLEAN, dirOk \in BOOLEAN : InitWith(installed, dirOk)

NextFault ==
    \/ \E b \in Batches, out \in Outcomes : AddDocuments(b, out)
    \/ \E q \in Docs, k \in Ks : Search(q, k)
    \/ Persist
    \/ \E stuck \in SUBSET FileNames, dirOk \in BOOLEAN : Clear(stuck, dirOk)
    \/ \E b \in Batches, out \in Outcomes, dirOk \in BOOLEAN : CrashInAdd(b, out, dirOk)

SpecFault == InitFault /\ [][NextFault]_vars

(* The same caller over a storage directory found as another process left *)
(* it: the files of a collection that was written whole, each of them      *)
(* then left as it is, removed, or made unparseable (its bytes are still   *)
(* there).                                                                 *)

Damages == {"none", "absent", "corrupt"}

DamagedIndex(f, how) ==
    IF how = "none" \/ f.st # "ok" THEN f
    ELSE IF how = "absent" THEN AbsentIndex
    ELSE [f EXCEPT !.st = "corrupt"]

DamagedList(f, how) ==
    IF how = "none" \/ f.st # "ok" THEN f
    ELSE IF how = "absent" THEN AbsentList
    ELSE [f EXCEPT !.st = "corrupt"]

Damaged(dk, hi, hd, ht, hm) ==
    [index |-> DamagedIndex(dk.index, hi), tmp |-> dk.tmp,
     ids |-> DamagedList(dk.ids, hd),
     texts |-> DamagedList(dk.texts, ht),
     metas |-> DamagedList(dk.metas, hm)]

InitDisk ==
    \E b \in {c \in Batches : Usable(c)}, hi, hd, ht, hm \in Damages :
        InitOver(TRUE, TRUE, Damaged(FsAdd(EmptyDisk, b, AllOk).store, hi, hd, ht, hm))

NextDisk ==
    \/ \E b \in Batches : AddDocuments(b, AllOk)
    \/ \E q \in Docs, k \in Ks : Search(q, k)

SpecDisk == InitDisk /\ [][NextDisk]_vars

----------------------------------------------------------------------------
(* Several threads on one manager.  A thread that called add_documents,    *)
(* search or clear waits for self._lock, runs its section and leaves the   *)
(* with block; persist runs its section without the lock.  The arguments   *)
(* are values fixed by the caller and nothing shared is read before the    *)
(* lock, so they are drawn when the section runs.                          *)

Locked == {"add", "search", "clear"}
Waiting(op) == "wait_" \o op
Inside(op) == "in_" \o op

\* a thread calls a method: the embedder runs, outside the lock
Begin(t, op) ==
    /\ pc[t] = "idle"
    /\ pc' = [pc EXCEPT ![t] = IF op \in Locked THEN Waiting(op) ELSE Inside(op)]
    /\ UNCHANGED <<others, backend, col, mem, disk, last, lock, faults>>

\* entering the with block without waiting for the lock to be free
AcquireAnyway(t, op) ==
    /\ pc[t] = Waiting(op)
    /\ lock' = t
    /\ pc' = [pc EXCEPT ![t] = Inside(op)]
    /\ UNCHANGED <<others, backend, col, mem, disk, last, faults>>

\* with self._lock:
Acquire(t, op) ==
    /\ pc[t] = Waiting(op)
    /\ lock = 0
    /\ lock' = t
    /\ pc' = [pc EXCEPT ![t] = Inside(op)]
    /\ UNCHANGED <<others, backend, col, mem, disk, last, faults>>

\* the section runs to its end (or raises) and the with block is left
Finish(t, op) ==
    /\ pc[t] = Inside(op)
    /\ CASE op = "add" -> \E b \in Batches : AddSection(b, AllOk)
         [] op = "search" -> \E q \in Docs, k \in Ks : SearchSection(q, k)
         [] op = "clear" -> ClearSection({}, TRUE)
         [] OTHER -> PersistSection
    /\ lock' = IF op \in Locked THEN 0 ELSE lock
    /\ pc' = [pc EXCEPT ![t] = "idle"]
    /\ UNCHANGED <<others, backend, faults>>

NextThreads ==
    \E t \in Threads, op \in {"add", "search", "persist", "clear"} :
        \/ Begin(t, op)
        \/ op \in Locked /\ Acquire(t, op)
        \/ Finish(t, op)

SpecThreads == Init /\ [][NextThreads]_vars

----------------------------------------------------------------------------
(* Two managers given the same embedder and the same calls: the first fell *)
(* back to the in-memory store (backend, mem; last is its last call), the  *)
(* second runs the filesystem backend over disk.                           *)

InitPair == InitWith(FALSE, TRUE)

PairAdd(b) ==
    /\ AddNothing(b)
       \/ /\ Usable(b) /\ Room(b)
          /\ mem' = MemAdd(mem, b).store
          /\ disk' = FsAdd(disk, b, AllOk).store
          /\ last' = Call("add", b, None, 0, AllOk, MemAdd(mem, b).ret)
          /\ col' = col
    /\ UNCHANGED <<others, backend, pc, lock, faults>>

PairSearch(q, k) ==
    /\ SearchSection(q, k)
    /\ UNCHANGED <<others, backend, pc, lock, faults>>

PairPersist ==
    /\ PersistSection
    /\ UNCHANGED <<others, backend, pc, lock, faults>>

PairClear ==
    /\ mem' = MemClear(mem)
    /\ disk' = DeleteCollection(disk, {})
    /\ last' = Call("clear", <<>>, None, 0, AllOk, Ok(<<>>))
    /\ UNCHANGED <<others, backend, col, pc, lock, faults>>

NextPair ==
    \/ \E b \in Batches : PairAdd(b)
    \/ \E q \in Docs, k \in Ks : PairSearch(q, k)
    \/ PairPersist
    \/ PairClear

SpecPair == InitPair /\ [][NextPair]_vars

----------------------------------------------------------------------------
(* The ledger, called by one process on an initialised database.  The      *)
(* clock goes on between calls, by any number of ticks, none included.     *)

Tick ==
    /\ ledger.now < MaxTime
    /\ ledger' = [ledger EXCEPT !.now = @ + 1]
    /\ UNCHANGED <<rag, guard, extract, http>>

LedgerAdd(account_id, amount, timestamp) ==
    /\ Len(ledger.rows) < MaxRows
    /\ ledger' = [ledger EXCEPT
                    !.rows = AddTransaction(@, ledger.now, account_id, amount, timestamp),
                    !.ret = [NoCall EXCEPT !.op = "add", !.account = account_id,
                                           !.value = Len(ledger.rows) + 1]]
    /\ UNCHANGED <<rag, guard, extract, http>>

LedgerList(account_id, limit, since) ==
    /\ \E txs \in GetTransactions(ledger.rows, account_id, limit, since) :
           ledger' = [ledger EXCEPT
                        !.ret = [NoCall EXCEPT !.op = "list", !.account = account_id,
                                               !.limit = limit, !.since = since,
                                               !.rows = txs]]
    /\ UNCHANGED <<rag, guard, extract, http>>

LedgerBalance(account_id) ==
    /\ ledger' = [ledger EXCEPT
                    !.ret = [NoCall EXCEPT !.op = "balance", !.account = account_id,
                                           !.value = GetBalance(ledger.rows, account_id)]]
    /\ UNCHANGED <<rag, guard, extract, http>>

InitLedger == InitWith(FALSE, TRUE)

NextLedger ==
    \/ Tick
    \/ \E a \in Accounts, m \in Amounts, ts \in Timestamps : LedgerAdd(a, m, ts)
    \/ \E a \in Accounts, n \in Limits, since \in Timestamps : LedgerList(a, n, since)
    \/ \E a \in Accounts : LedgerBalance(a)

SpecLedger == InitLedger /\ [][NextLedger]_vars

----------------------------------------------------------------------------
(* The classifier: a call of guardrail_check, the passes of its loop, each *)
(* with the response the LLM gives then, and its return.                   *)

GuardrailCheck(iface, envOk, repr, max_attempts) ==
    /\ guard.pc \in {"idle", "done"}
    /\ iface # "str" => repr = Prose
    /\ guard' = Entered(iface, envOk, repr, max_attempts)
    /\ UNCHANGED <<rag, ledger, extract, http>>

Attempt(resp) ==
    /\ guard.pc = "loop"
    /\ guard.attempt < guard.max_attempts
    /\ guard.iface = "str" => resp = Raises
    /\ guard' = AfterAttempt(guard, resp)
    /\ UNCHANGED <<rag, ledger, extract, http>>

LoopEnds ==
    /\ guard.pc = "loop"
    /\ guard.attempt >= guard.max_attempts
    /\ guard' = Exhausted(guard)
    /\ UNCHANGED <<rag, ledger, extract, http>>

InitGuard == InitWith(FALSE, TRUE)

NextGuard ==
    \/ \E iface \in Ifaces \cup {"None"}, envOk \in BOOLEAN,
          repr \in {Prose, Text(<<"{", "M", "}">>, Plain)}, n \in 0 .. MaxAttempts :
            GuardrailCheck(iface, envOk, repr, n)
    \/ \E resp \in Responses : Attempt(resp)
    \/ LoopEnds

SpecGuard == InitGuard /\ [][NextGuard]_vars

----------------------------------------------------------------------------
(* The extraction alone: one call, on any text over the alphabet.          *)

ExtractJson(chars) ==
    /\ extract' = [called |-> TRUE, text |-> Text(chars, EmptyObject),
                   ret |-> ExtractJsonFromText(Text(chars, EmptyObject))]
    /\ UNCHANGED <<rag, ledger, guard, http>>

InitExtract == InitWith(FALSE, TRUE)

NextExtract == ~extract.called /\ \E chars \in Strings(MaxChars) : ExtractJson(chars)

SpecExtract == InitExtract /\ [][NextExtract]_vars

----------------------------------------------------------------------------
(* The server: requests handled one after the other over one database.     *)

DoPost(req) ==
    /\ \E out \in DoPostOn(req, ledger) :
           /\ Len(out.ledger.rows) <= MaxRows
           /\ ledger' = out.ledger
           /\ http' = [handled |-> TRUE, req |-> req, sent |-> out.sent,
                       raised |-> out.raised]
    /\ UNCHANGED <<rag, guard, extract>>

InitHttp == InitWith(FALSE, TRUE)

NextHttp == \E req \in Requests : DoPost(req)

SpecHttp == InitHttp /\ [][NextHttp]_vars

----------------------------------------------------------------------------
(* Properties *)

Range(s) == {s[i] : i \in 1 .. Len(s)}
Ids(ret) == [i \in 1 .. Len(ret.results) |-> ret.results[i].id]

\* an add on the active backend that ran its section and came back
AddReturned(c) == c.op = "add" /\ Usable(c.batch) /\ c.ret.status = "ok"

(* C1: after add calls that added M documents, the stored ids, texts,      *)
(* metadatas and vector rows are M each and position i of the vectors is   *)
(* the document at position i of the ids, texts and metadatas, in both     *)
(* backends.                                                               *)
C1_Aligned ==
    AddReturned(last) =>
        IF Dispatch
        THEN /\ LoadIndex(disk).rows = LoadList(disk.ids)
             /\ LoadList(disk.ids) = LoadList(disk.texts)
             /\ LoadList(disk.texts) = LoadList(disk.metas)
        ELSE /\ mem.vecs.rows = mem.ids
             /\ mem.ids = mem.texts
             /\ mem.texts = mem.metas

\* the add of a batch whose dimension differs from the stored index
ChangesDimension ==
    /\ Dispatch
    /\ AddReturned(last')
    /\ LoadIndex(disk).st = "ok"
    /\ LoadIndex(disk).d # Dim(last'.batch[1])

(* C2: on the filesystem backend, after a batch of dimension D1 and then a *)
(* batch of dimension D2 # D1, every query returns only ids, texts and     *)
(* metadata of documents of the D2 batch.                                  *)
C2_OnlyNewBatch ==
    [][ChangesDimension =>
          \A q \in Docs, k \in Ks :
              \A r \in Range(FsQuery(disk', Embed(q), k).results) :
                  /\ r.id \in Range(last'.batch)
                  /\ r.text \in Range(last'.batch)
                  /\ r.metadata \in Range(last'.batch)]_vars

InSection(ops) == {t \in Threads : \E op \in ops : pc[t] = Inside(op)}

(* C3 as claimed: at most one of add_documents, search, persist and clear  *)
(* is inside its backend section at a time.                                *)
C3_AllFourExclusive ==
    Cardinality(InSection({"add", "search", "persist", "clear"})) <= 1

(* C3 as amended: at most one of add_documents, search and clear is inside *)
(* its backend section at a time, and that thread holds the lock; persist  *)
(* takes no lock.                                                          *)
C3_LockedExclusive ==
    /\ Cardinality(InSection(Locked)) <= 1
    /\ \A t \in InSection(Locked) : lock = t
    /\ InSection(Locked) = {} => lock = 0

C3_Witness ==
    \E t, u \in Threads :
        pc[t] = Inside("add") /\ pc[u] = Waiting("search") /\ mem.ids # <<>>

(* C4: faiss_backend.add returns normally whenever a persistence write     *)
(* (index, ids, texts or metas) fails.                                     *)
C4_WriteFailureSwallowed ==
    (last.op = "add" /\ last.out.kind = "fail") => last.ret.status = "ok"

\* add_documents on the filesystem backend returned although a write failed
ReturnedAfterFailedWrite ==
    Dispatch /\ AddReturned(last') /\ last'.out.kind = "fail"

(* C5 as claimed: when add_documents returns after a failed disk write,    *)
(* every added document can be returned by a following search.             *)
C5_StillSearchable ==
    [][ReturnedAfterFailedWrite =>
          \A d \in Range(last'.batch) :
              \E q \in Docs, k \in Ks :
                  d \in Range(Ids(FsQuery(disk', Embed(q), k)))]_vars

(* C5 as amended: when add_documents returns after a failed disk write,    *)
(* the batch is in the collection only if the index write succeeded.       *)
(* After a failed index write (write of the temporary file, or rename) the *)
(* index file is as it was and a following search finds the positions it   *)
(* found before the add; after a failed texts or metas write the index     *)
(* holds the batch as its last rows.                                       *)
C5_IndexWriteDecides ==
    [][ReturnedAfterFailedWrite =>
          IF last'.out.step \in {1, 2}
          THEN /\ disk'.index = disk.index
               /\ \A q \in Docs, k \in Ks :
                      FsQuery(disk', Embed(q), k).status = FsQuery(disk, Embed(q), k).status
               /\ \A q \in Docs, k \in Ks :
                      Len(FsQuery(disk', Embed(q), k).results)
                          = Len(FsQuery(disk, Embed(q), k).results)
          ELSE /\ disk'.index.st = "ok"
               /\ Len(disk'.index.rows) >= Len(last'.batch)
               /\ SubSeq(disk'.index.rows,
                         Len(disk'.index.rows) - Len(last'.batch) + 1,
                         Len(disk'.index.rows)) = last'.batch]_vars

C5_Witness ==
    /\ Dispatch /\ AddReturned(last)
    /\ last.out.kind = "fail" /\ last.out.step = 1
    /\ disk.index.st = "ok"
    /\ LoadList(disk.ids) = disk.index.rows \o last.batch

\* no document is stored in the collection of the active backend
CollectionEmpty ==
    IF Dispatch
    THEN /\ disk.index.st = "absent" /\ disk.ids.st = "absent"
         /\ disk.texts.st = "absent" /\ disk.metas.st = "absent"
    ELSE mem = EmptyMem

(* C6: search on a collection that was never added to, or was just         *)
(* cleared, returns an empty sequence and does not raise, in both backends *)
(* and for every k.                                                        *)
C6_EmptySearch ==
    /\ last.op = "search" /\ CollectionEmpty => last.ret = Ok(<<>>)
    /\ last.op = "search" /\ last.fresh => last.ret = Ok(<<>>)
    /\ last.op \in {"init", "clear"} => CollectionEmpty

C6_Witness ==
    /\ last.op = "search" /\ last.fresh /\ last.k = -1
    /\ last.ret = Ok(<<>>)

(* C7: if the process dies at any point of faiss_backend.add, the index    *)
(* file is as it was before the add (absent if it was absent) or is the    *)
(* complete index the add builds; it is never a partly written index.      *)
C7_IndexAtomic ==
    /\ [][(last'.op = "add" /\ last'.out.kind = "crash") =>
             \/ disk'.index = disk.index
             \/ disk'.index = FsAdd(disk, last'.batch, AllOk).store.index]_vars
    /\ [](disk.index.st # "corrupt")

C7_Witness ==
    /\ last.op = "add" /\ last.out.kind = "crash" /\ last.out.step = 1
    /\ disk.tmp.st = "corrupt"
    /\ disk.index.st = "ok"

(* C8: the backend is chosen in the constructor and does not change: after *)
(* every call on the instance, failed calls included, the instance         *)
(* dispatches as it did before the call; a constructor whose filesystem    *)
(* backend failed to initialise gives the in-memory backend.               *)
C8_BackendFixed ==
    /\ [][(last'.out.kind # "crash") =>
             (backend' = backend /\ (Dispatch' <=> Dispatch))]_vars
    /\ [](last.op = "init" /\ last.out.kind = "fail" => backend = "memory" /\ ~Dispatch)
    /\ [](Dispatch <=> backend = "faiss")

C8_Witness ==
    /\ last.op = "clear" /\ last.ret.status = "raise"
    /\ Dispatch

(* C9: after clear() on the filesystem backend the collection is empty and *)
(* has no dimension: the next add_documents of a batch B of any dimension  *)
(* leaves exactly the documents of B, aligned.                             *)
C9_ClearResets ==
    /\ Dispatch /\ last.op = "clear" => CollectionEmpty
    /\ Dispatch /\ AddReturned(last) /\ last.fresh =>
            /\ disk.index = IndexFile(Dim(last.batch[1]), last.batch)
            /\ disk.ids = ListFile(last.batch)
            /\ disk.texts = ListFile(last.batch)
            /\ disk.metas = ListFile(last.batch)

C9_Witness ==
    /\ Dispatch /\ AddReturned(last) /\ last.fresh
    /\ Dim(last.batch[1]) = 1
    /\ disk.index.rows = last.batch

(* C10: the in-memory and the filesystem backend have the same contract:   *)
(* after the same calls, the next call has the same outcome (returns or    *)
(* raises) in both, and every search returns the same document ids.        *)
C10_SameContract ==
    /\ \A b \in Batches :
           Usable(b) /\ Room(b) =>
               MemAdd(mem, b).ret.status = FsAdd(disk, b, AllOk).ret.status
    /\ \A q \in Docs, k \in Ks :
           /\ MemSearch(mem, Embed(q), k).status = FsQuery(disk, Embed(q), k).status
           /\ Ids(MemSearch(mem, Embed(q), k)) = Ids(FsQuery(disk, Embed(q), k))

----------------------------------------------------------------------------
(* Properties of search and of the stored state *)

\* the documents whose vectors the active backend holds, in position order,
\* and the ids it holds
StoredRows == IF Dispatch THEN LoadIndex(disk).rows ELSE mem.vecs.rows
StoredIds == IF Dispatch THEN LoadList(disk.ids) ELSE mem.ids
StoredTexts == IF Dispatch THEN LoadList(disk.texts) ELSE mem.texts
StoredMetas == IF Dispatch THEN LoadList(disk.metas) ELSE mem.metas

Distinct(s) == \A i, j \in 1 .. Len(s) : i # j => s[i] # s[j]

\* the embedding of the query text q has the width of the stored vectors
FitsStore(q) == StoredRows # <<>> => Dim(q) = Dim(StoredRows[1])

(* C15: for a collection holding M documents and every k, search(query, k) *)
(* returns a list of at most k results, min(k, M) of them for k >= 1, each *)
(* a stored document with its id, text, metadata and score, and no         *)
(* document twice.  The query is one whose embedding has the width of the  *)
(* stored vectors.                                                         *)
C15_TopK ==
    last.op = "search" /\ FitsStore(last.q) =>
        /\ last.ret.status = "ok"
        /\ Len(last.ret.results) <= Max(last.k, 0)
        /\ last.k >= 1 => Len(last.ret.results) = Min(last.k, Len(StoredIds))
        /\ \A i \in 1 .. Len(last.ret.results) :
               LET r == last.ret.results[i]
               IN /\ r.id \in Range(StoredIds)
                  /\ r.text = r.id /\ r.metadata = r.id
        /\ Distinct(StoredIds) => Distinct(Ids(last.ret))

\* what search(q, k) returns over the store m and the files dk, and what it
\* returns in the current state
SearchOver(faiss, m, dk, q, k) ==
    IF faiss THEN FsQuery(dk, Embed(q), k) ELSE MemSearch(m, Embed(q), k)
SearchNow(q, k) == SearchOver(Dispatch, mem, disk, q, k)

(* C16: search is idempotent and read-only: two searches with the same     *)
(* query and k, with no add_documents or clear between them, return the    *)
(* same ordered results, and a search leaves the stored ids, texts,        *)
(* metadatas and vectors unchanged.                                        *)
C16_SearchReadOnly ==
    /\ [][last'.op = "search" => mem' = mem /\ disk' = disk]_vars
    /\ [][last'.op \in {"search", "persist"} =>
             \A q \in Docs, k \in Ks :
                 SearchOver(Dispatch', mem', disk', q, k) = SearchNow(q, k)]_vars
    /\ [](last.op = "search" => last.ret = SearchNow(last.q, last.k))

C16_Witness ==
    /\ last.op = "search" /\ Dispatch
    /\ Len(last.ret.results) = 2
    /\ last.ret.results[1].id # last.ret.results[2].id
    /\ last.ret = SearchNow(last.q, last.k)

\* two vectors of one direction: their cosine is 1
SameDirection(u, v) ==
    /\ Len(u) = Len(v)
    /\ Dot(u, v) > 0
    /\ Dot(u, v) * Dot(u, v) = Dot(u, u) * Dot(v, v)

(* C17: for documents added with distinct ids, a search whose query        *)
(* embedding is that of a stored document returns that document among the  *)
(* top k with the maximal score, cosine 1, for every k >= 1 such that      *)
(* fewer than k other stored vectors have the same direction.              *)
C17_SelfMatch ==
    LET q == last.q
        alike == {i \in 1 .. Len(StoredRows) :
                     StoredRows[i] # q /\ SameDirection(Embed(StoredRows[i]), Embed(q))}
    IN /\ last.op = "search" /\ last.k >= 1
       /\ Distinct(StoredIds) /\ Distinct(StoredRows)
       /\ q \in Range(StoredRows)
       /\ Dot(Embed(q), Embed(q)) > 0
       /\ Cardinality(alike) < last.k
       => /\ last.ret.status = "ok"
          /\ \E i \in 1 .. Len(last.ret.results) :
                 LET r == last.ret.results[i]
                 IN /\ r.id = q /\ r.text = q /\ r.metadata = q
                    /\ ~r.score.nan /\ Same(r.score, Score(1, 1))
                    /\ \A j \in 1 .. Len(last.ret.results) :
                           ~Greater(last.ret.results[j].score, r.score)

\* the files as the loads see them: an unreadable file is no file
Repaired(dk) ==
    [index |-> IF dk.index.st = "ok" THEN dk.index ELSE AbsentIndex,
     tmp |-> dk.tmp,
     ids |-> IF dk.ids.st = "ok" THEN dk.ids ELSE AbsentList,
     texts |-> IF dk.texts.st = "ok" THEN dk.texts ELSE AbsentList,
     metas |-> IF dk.metas.st = "ok" THEN dk.metas ELSE AbsentList]

(* C18: the filesystem backend never raises because persisted state is     *)
(* missing or corrupt: whichever of the index, ids, texts and metas files  *)
(* are absent or unparseable, add and query complete as they do when those *)
(* files are absent, and query returns an empty list when the index is     *)
(* unreadable.                                                             *)
C18_TolerantLoad ==
    /\ [][Dispatch /\ last'.op = "add" /\ Usable(last'.batch) =>
             /\ last'.ret.status = "ok"
             /\ disk' = FsAdd(Repaired(disk), last'.batch, AllOk).store]_vars
    /\ [][Dispatch /\ last'.op = "search" =>
             /\ last'.ret = FsQuery(Repaired(disk), Embed(last'.q), last'.k)
             /\ disk.index.st # "ok" => last'.ret = Ok(<<>>)
             /\ last'.k >= 1 /\ (disk.index.st = "ok" => Dim(last'.q) = disk.index.d) =>
                    last'.ret.status = "ok"]_vars

C18_Witness ==
    /\ Dispatch /\ last.op = "search" /\ last.k >= 1
    /\ disk.index.st = "corrupt" /\ disk.index.rows # <<>>
    /\ disk.ids.st = "corrupt" /\ disk.texts.st = "absent"
    /\ last.ret = Ok(<<>>)

IsPrefix(s, t) == Len(s) <= Len(t) /\ SubSeq(t, 1, Len(s)) = s

C22_RaisedAddUnchanged ==
    [][last'.op = "add" /\ last'.ret.status = "raise" =>
          mem' = mem /\ disk' = disk]_vars

\* a thread leaves the section of add_documents in this step
AddLeaves == \E t \in Threads : pc[t] = Inside("add") /\ pc'[t] = "idle"

\* C23: when several threads call add_documents on one manager, no batch
\* is lost or torn: every call that returns has put its documents, once,
\* contiguous and in its order, behind what the ids, texts, metadatas and
\* vectors held, so that the four stay aligned whatever the order of the lock.
C23_NoBatchLostOrTorn ==
    [][AddLeaves /\ AddReturned(last') =>
          /\ StoredIds' = StoredIds \o last'.batch
          /\ StoredTexts' = StoredTexts \o last'.batch
          /\ StoredMetas' = StoredMetas \o last'.batch
          /\ StoredRows' = StoredRows \o last'.batch]_vars

\* the index file holds more rows than some side-car file holds entries
IndexLonger ==
    /\ Dispatch /\ LoadIndex(disk).st = "ok"
    /\ Len(StoredRows) > Min(Len(StoredIds), Min(Len(StoredTexts), Len(StoredMetas)))

\* how many results carry None in the field f
Nones(results, f) == Cardinality({r \in 1 .. Len(results) : results[r][f] = None})

\* C25: faiss_backend.query does not fail because the index holds more
\* entries than the side-car sequences: the positions the index pads with
\* (negative ones) give no result, and a result whose position lies beyond
\* a side-car sequence carries None for that field.  The only searches that
\* raise are those idx.search itself refuses (k <= 0, a query of another
\* width), as on an aligned collection.
C25_BeyondSidecarsIsNone ==
    last.op = "search" /\ IndexLonger =>
        LET fails == FaissSearchFails(LoadIndex(disk), Embed(last.q), last.k)
            res == last.ret.results
        IN /\ last.ret.status = "raise" <=> fails
           /\ ~fails =>
                 /\ Len(res) = Min(last.k, Len(StoredRows))
                 /\ \A r \in 1 .. Len(res) :
                        /\ res[r].id \in Range(StoredIds) \cup {None}
                        /\ res[r].text \in Range(StoredTexts) \cup {None}
                        /\ res[r].metadata \in Range(StoredMetas) \cup {None}
                 /\ last.k >= Len(StoredRows) =>
                        /\ Nones(res, "id") = Max(Len(StoredRows) - Len(StoredIds), 0)
                        /\ Nones(res, "text") = Max(Len(StoredRows) - Len(StoredTexts), 0)
                        /\ Nones(res, "metadata") =
                               Max(Len(StoredRows) - Len(StoredMetas), 0)

\* after a crash between the rename of the index and the write of the ids,
\* a search for more than the index holds returned a result without id
C25_Witness ==
    /\ last.op = "search" /\ IndexLonger
    /\ last.ret.status = "ok"
    /\ last.k > Len(StoredRows)
    /\ Len(StoredRows) > Len(StoredIds)
    /\ \E r \in 1 .. Len(last.ret.results) :
           last.ret.results[r].id = None /\ last.ret.results[r].text = None

----------------------------------------------------------------------------
(* Properties of the classifier *)

\* the last pass of the loop got no JSON: the call raised, or nothing was
\* extracted from the text
NoJson(g) == g.raised \/ g.last_raw.none \/ ExtractJsonFromText(g.last_raw) = JNone

(* C11: with an LLM that raises or never returns parseable JSON,           *)
(* guardrail_check calls the LLM at most max_attempts times and then       *)
(* returns {"error": "no_valid_json", "raw": last_raw}; it never raises,   *)
(* for every max_attempts >= 0.                                            *)
C11_BoundedThenError ==
    /\ guard.calls <= guard.attempt /\ guard.attempt <= guard.max_attempts
    /\ guard.result.kind # "raised"
    /\ guard.pc = "done" => guard.result.kind \in {"parsed", "warning", "error"}
    /\ guard.pc = "done" /\ guard.llm /\ NoJson(guard) =>
           /\ guard.result.kind = "error" /\ guard.result.error = "no_valid_json"
           /\ guard.result.raw = guard.last_raw
           /\ guard.attempt = guard.max_attempts

C11_Witness ==
    /\ guard.pc = "done" /\ guard.result.error = "no_valid_json"
    /\ guard.max_attempts >= 2 /\ guard.calls = guard.max_attempts
    /\ guard.raised

(* C12: when the response is a JSON object with the four category fields   *)
(* valued yes or no, a verdict that is allow or block in any letter case   *)
(* and a rationale, guardrail_check returns {"parsed": ...} whose keys are *)
(* toxicity, prompt_injection, pii_except_name, violence, verdict and      *)
(* rationale, the verdict lower-cased, every category yes or no.           *)
C12_Normalized ==
    LET j == ExtractJsonFromText(guard.last_raw)
        out == guard.result.parsed.o
        ver == j.o["verdict"].s
    IN guard.pc = "done" /\ ~NoJson(guard) /\ j.t = "obj" /\ j.o \in WellFormed =>
           /\ guard.result.kind = "parsed"
           /\ DOMAIN out = Fields
           /\ \A c \in Categories : out[c] \in {JStr(Yes), JStr(No)}
           /\ out["verdict"] \in {JStr(Allow), JStr(Block)}
           /\ Len(out["verdict"].s) = Len(ver)
           /\ \A i \in 1 .. Len(ver) : out["verdict"].s[i] \in {ver[i], Lower(ver[i])}
           /\ out["rationale"] = JStr(Safe)

C12_Witness ==
    /\ guard.pc = "done" /\ guard.result.kind = "parsed"
    /\ guard.last_raw.chars = <<"x", "{", "M", "}", "x">>
    /\ guard.last_raw.o \in WellFormed
    /\ guard.last_raw.o["verdict"] = JStr(<<"B", "l", "O", "c", "K">>)
    /\ guard.result.parsed.o["verdict"] = JStr(Block)

(* C20: guardrail_check calls the LLM again only when the call raised or   *)
(* the response yielded no JSON; it stops at the first attempt whose       *)
(* response yields JSON, and when that JSON fails validation it returns    *)
(* {"warning": "structure_mismatch", ...} at once, the remaining attempts  *)
(* unused.                                                                 *)
C20_RetryOnlyUnparseable ==
    /\ [][guard'.attempt = guard.attempt + 1 =>
             LET j == ExtractJsonFromText(guard'.last_raw)
             IN /\ guard'.pc = "loop" <=> NoJson(guard')
                /\ guard'.calls <= guard.calls + 1
                /\ ~NoJson(guard') /\ Valid(j) => guard'.result.kind = "parsed"
                /\ ~NoJson(guard') /\ ~Valid(j) =>
                       /\ guard'.pc = "done"
                       /\ guard'.result.kind = "warning"
                       /\ guard'.result.error = "structure_mismatch"
                       /\ guard'.result.parsed = j]_vars
    /\ [][guard'.calls # guard.calls =>
             guard'.attempt = guard.attempt + 1 \/ guard'.calls = 0]_vars
    /\ [][guard.pc = "done" => guard'.attempt = 0]_vars

C20_Witness ==
    /\ guard.pc = "done" /\ guard.result.kind = "warning"
    /\ guard.attempt >= 2 /\ guard.attempt < guard.max_attempts
    /\ guard.calls = guard.attempt

----------------------------------------------------------------------------
(* Properties of the ledger *)

\* the sum of the amounts inserted for account a, from row i on
RECURSIVE SumFrom(_, _, _)
SumFrom(rows, a, i) ==
    IF i > Len(rows) THEN 0
    ELSE (IF rows[i].account_id = a THEN rows[i].amount ELSE 0) + SumFrom(rows, a, i + 1)

(* C13: after any add_transaction calls, get_balance(account) is the sum   *)
(* of the amounts inserted for that account, 0 for an account with no      *)
(* transaction; transactions of other accounts do not contribute.          *)
C13_BalanceIsSum ==
    /\ [](\A a \in Accounts : GetBalance(ledger.rows, a) = SumFrom(ledger.rows, a, 1))
    /\ [](ledger.ret.op = "balance" =>
              ledger.ret.value = SumFrom(ledger.rows, ledger.ret.account, 1))
    /\ [][ledger'.ret.op = "add" /\ ledger'.rows # ledger.rows =>
             /\ SubSeq(ledger'.rows, 1, Len(ledger.rows)) = ledger.rows
             /\ Len(ledger'.rows) = Len(ledger.rows) + 1
             /\ \A a \in Accounts :
                    GetBalance(ledger'.rows, a) =
                        GetBalance(ledger.rows, a) +
                            (IF a = ledger'.ret.account
                             THEN ledger'.rows[Len(ledger'.rows)].amount ELSE 0)]_vars

C13_Witness ==
    /\ ledger.ret.op = "balance" /\ ledger.ret.account = "a"
    /\ Len(ledger.rows) = MaxRows
    /\ \E i, j, k \in 1 .. Len(ledger.rows) :
           /\ ledger.rows[i].account_id = "a" /\ ledger.rows[i].amount = 2
           /\ ledger.rows[j].account_id = "a" /\ ledger.rows[j].amount = -1
           /\ ledger.rows[k].account_id = "" /\ ledger.rows[k].amount = 2
    /\ ledger.ret.value = SumFrom(ledger.rows, "a", 1)
    /\ ledger.ret.value # SumAmount(ledger.rows)

\* the ids of the rows inserted for account a
IdsOf(rows, a) == {rows[i].id : i \in {j \in 1 .. Len(rows) : rows[j].account_id = a}}

(* C14: get_transactions(db, account_id=A, limit=L) returns the rows       *)
(* inserted for account A and no row of another account, all of them when  *)
(* there are at most L, most recent first: a row inserted later never      *)
(* comes after a row inserted earlier.                                     *)
C14_MostRecentFirst ==
    LET got == ledger.ret.rows
        mine == IdsOf(ledger.rows, ledger.ret.account)
    IN ledger.ret.op = "list" /\ ledger.ret.since = NoStamp =>
           /\ \A i \in 1 .. Len(got) : got[i].id \in mine
           /\ ledger.ret.limit < 0 \/ Cardinality(mine) <= ledger.ret.limit =>
                  {got[i].id : i \in 1 .. Len(got)} = mine
           /\ ledger.ret.limit >= 0 => Len(got) <= ledger.ret.limit
           /\ \A i, j \in 1 .. Len(got) : i < j => got[i].id > got[j].id

----------------------------------------------------------------------------
(* Properties of the extraction *)

\* whether the scan begun at position i is inside a string when it reads
\* position p, and whether the character there is escaped
QuoteState(s, i) ==
    LET f[p \in i .. Len(s) + 1] ==
            IF p = i THEN [in_str |-> FALSE, esc |-> FALSE]
            ELSE [in_str |-> IF f[p - 1].in_str /\ f[p - 1].esc THEN s[p - 1] \notin Atoms
                             ELSE IF f[p - 1].in_str THEN s[p - 1] # "\""
                             ELSE s[p - 1] = "\"",
                  esc |-> f[p - 1].in_str /\ ~f[p - 1].esc /\ s[p - 1] = "\\"]
    IN f

\* the braces of s[i .. p] outside strings: opening less closing
DepthAfter(s, i, p) ==
    LET unquoted(c) == {q \in i .. p : s[q] = c /\ ~QuoteState(s, i)[q].in_str}
    IN Cardinality(unquoted("{")) - Cardinality(unquoted("}"))

\* the positions that close a span begun at i
Closes(s, i) ==
    {j \in i .. Len(s) :
        s[j] = "}" /\ ~QuoteState(s, i)[j].in_str /\ DepthAfter(s, i, j) = 0}

\* the first balanced span of s, <<>> when it has none
FirstSpan(s) ==
    LET starts == {i \in 1 .. Len(s) : s[i] = "{" /\ Closes(s, i) # {}}
        least(S) == CHOOSE m \in S : \A n \in S : m <= n
    IN IF starts = {} THEN <<>>
       ELSE SubSeq(s, least(starts), least(Closes(s, least(starts))))

\* C21: when the whole text is not JSON, _extract_json_from_text returns the
\* parse of the first balanced brace span of the text, braces counted only
\* outside double-quoted strings and backslash escapes honoured; it returns
\* None when the text has no balanced span or when that span is not JSON,
\* whatever spans come later.
C21_FirstBalancedSpan ==
    extract.called /\ ~JsonLoads(extract.text.chars, extract.text.o).ok =>
        LET sub == FirstSpan(extract.text.chars)
        IN /\ sub = FindFirstJsonSubstring(extract.text.chars, 1)
           /\ sub = <<>> => extract.ret = JNone
           /\ sub # <<>> /\ JsonLoads(sub, extract.text.o).ok =>
                  extract.ret = JsonLoads(sub, extract.text.o).j
           /\ sub # <<>> /\ ~JsonLoads(sub, extract.text.o).ok => extract.ret = JNone

\* a text that is not JSON, whose first span is an object with a closing
\* brace inside a string, was parsed from that span
C21_Witness ==
    /\ extract.called
    /\ ~JsonLoads(extract.text.chars, extract.text.o).ok
    /\ extract.ret = JObject([key \in {Note} |-> JStr(<<"}">>)])
    /\ Len(FirstSpan(extract.text.chars)) < Len(extract.text.chars)

----------------------------------------------------------------------------
(* Properties of the HTTP handler *)

\* C24: do_POST sends exactly one JSON response for every request, whatever
\* its path and body: 404 not_found for a path other than /mcp, 400 for
\* invalid JSON, an unknown action or missing parameters, 200 on success
\* and 500 server_error when the ledger call fails; no request ends
\* without a response.
C24_ExactlyOneResponse ==
    http.handled =>
        /\ ~http.raised
        /\ Len(http.sent) = 1
        /\ http.sent[1].status \in {200, 400, 404, 500}
        /\ http.sent[1].status = 404 <=> http.req.path # "/mcp"
        /\ http.req.path = "/mcp" /\ http.req.json = "invalid" =>
               http.sent[1] = [status |-> 400, error |-> "invalid_json", value |-> 0]
        /\ http.sent[1].status = 500 => http.req.data.db_path = "bad"

====
